---------------------------- MODULE Spec2Model ----------------------------
(***************************************************************************)
(* A model of cldr/update.py: discovery of the latest CLDR archive, the    *)
(* projection of XML-decoded records into rows, table re-creation and      *)
(* bulk insertion, the currency and territory extraction routines, and     *)
(* the pipeline driver that runs every dataset against one archive.        *)
(*                                                                         *)
(* Python values are tagged records: None, PyStr(<<characters>>),          *)
(* PyBool(b), PyInt(n), PyDate(y, m, d).  A character string is a sequence *)
(* of one-letter strings, so that split, join, isnumeric and int are       *)
(* computed and not assumed.  A dict is a function whose DOMAIN is its key *)
(* set.                                                                    *)
(***************************************************************************)
EXTENDS Integers, Sequences, FiniteSets, TLC

VARIABLES
    \* get_latest_version_url / latest_dataset
    caller, ldPc, start, current, latest, probes, lvResult, spoolOpen, zipOpen, fetched,
    \* the tables seen through the cursor
    db,
    \* one call of _simple_store
    stPc, stData, stCall,
    \* a sequence of _recreate and executemany calls on one table, with the
    \* history the statements about it need
    tbPc, recreated, lastFields, sinceRecreate, runLength, firstOfRun, discarded, ranTwice,
    \* TerritorySupplementalDataset.extract_supplementalData
    tPc, tGroups, mapping, mapKeys, keyIdx, parent, path, tick, pathValues,
    \* to_bool and CurrencySupplementalDataset.extract_supplementalData
    cPc, cRegions, castIn, castOut,
    \* update_cldr_dataset and Dataset.__call__
    rPc, rDataset, rRoutine, rMembers, rOpen, rAcquired, rReleased, rTwice, rInvoked,
    rCommitted, rFailure

locVars == <<caller, ldPc, start, current, latest, probes, lvResult, spoolOpen, zipOpen, fetched>>

stVars == <<stPc, stData, stCall>>
tbVars == <<tbPc, recreated, lastFields, sinceRecreate, runLength, firstOfRun, discarded, ranTwice>>

teVars == <<tPc, tGroups, mapping, mapKeys, keyIdx, parent, path, tick, pathValues>>

cuVars == <<cPc, cRegions, castIn, castOut>>

ruVars == <<rPc, rDataset, rRoutine, rMembers, rOpen, rAcquired, rReleased, rTwice, rInvoked,
           rCommitted, rFailure>>

vars == <<locVars, db, stVars, tbVars, teVars, cuVars, ruVars>>

\* What the actions of each part leave alone.
notLocate == <<db, stVars, tbVars, teVars, cuVars, ruVars>>
notStore == <<locVars, tbVars, teVars, cuVars, ruVars>>
notTable == <<locVars, stVars, teVars, cuVars, ruVars>>
notTerritory == <<locVars, stVars, tbVars, cuVars, ruVars>>
notCurrency == <<locVars, stVars, tbVars, teVars, ruVars>>
notRun == <<locVars, db, stVars, tbVars, teVars, cuVars>>

-----------------------------------------------------------------------------
(* Python values *)

None == [k |-> "none"]
PyStr(s) == [k |-> "str", v |-> s]
PyBool(b) == [k |-> "bool", v |-> b]
PyInt(n) == [k |-> "int", v |-> n]

\* bool(value): the truth value of a Python value.
Truthy(v) ==
    CASE v.k = "none" -> FALSE
      [] v.k = "bool" -> v.v
      [] v.k = "int" -> v.v # 0
      [] v.k = "str" -> v.v # <<>>
      [] OTHER -> TRUE

Digits == {"0", "1", "2", "3", "4", "5", "6", "7", "8", "9"}

\* dict.get(key, default)
Get(d, key, default) == IF key \in DOMAIN d THEN d[key] ELSE default

\* str.split() with no argument: runs of whitespace separate the tokens,
\* leading and trailing whitespace yields no empty token.
RECURSIVE SplitWsAcc(_, _, _)
SplitWsAcc(s, cur, acc) ==
    IF s = <<>>
    THEN IF cur = <<>> THEN acc ELSE Append(acc, cur)
    ELSE IF Head(s) = " "
         THEN SplitWsAcc(Tail(s), <<>>, IF cur = <<>> THEN acc ELSE Append(acc, cur))
         ELSE SplitWsAcc(Tail(s), Append(cur, Head(s)), acc)

SplitWs(s) == SplitWsAcc(s, <<>>, <<>>)

\* str.split(sep): every occurrence of sep separates, empty tokens are kept.
RECURSIVE SplitSepAcc(_, _, _, _)
SplitSepAcc(s, sep, cur, acc) ==
    IF s = <<>>
    THEN Append(acc, cur)
    ELSE IF Head(s) = sep
         THEN SplitSepAcc(Tail(s), sep, <<>>, Append(acc, cur))
         ELSE SplitSepAcc(Tail(s), sep, Append(cur, Head(s)), acc)

SplitSep(s, sep) == SplitSepAcc(s, sep, <<>>, <<>>)

\* ' '.join(parts)
RECURSIVE JoinSp(_)
JoinSp(parts) ==
    IF parts = <<>> THEN <<>>
    ELSE IF Len(parts) = 1 THEN parts[1]
    ELSE parts[1] \o <<" ">> \o JoinSp(Tail(parts))

\* str.isnumeric(): non-empty and every character numeric.
IsNumeric(s) == s # <<>> /\ \A i \in 1..Len(s) : s[i] \in Digits

-----------------------------------------------------------------------------
(* get_latest_version_url and latest_dataset *)

\* The default of the start parameter.
DefaultStart == 29

\* Starting versions tried when the function is called directly.
StartVersions == {0, 1, DefaultStart}

\* Resolved URLs a probe may report.
Urls == {PyStr(<<"u">>), PyStr(<<"v">>)}

\* HTTP status codes a probe may answer with.
StatusCodes == {200, 404}

\* The probing loop is unbounded in the code; the model stops probing here.
MaxProbes == 4

NoResult == <<>>

InitLocate ==
    /\ caller \in {"direct", "latest_dataset"}
    /\ ldPc = "begin"
    /\ start \in (IF caller = "direct" THEN StartVersions ELSE {DefaultStart})
    /\ current = start
    /\ latest = None
    /\ probes = <<>>
    /\ lvResult = NoResult
    /\ spoolOpen = FALSE
    /\ zipOpen = FALSE
    /\ fetched = <<>>

IdleLocate ==
    /\ caller = "none"
    /\ ldPc = "idle"
    /\ start = DefaultStart
    /\ current = start
    /\ latest = None
    /\ probes = <<>>
    /\ lvResult = NoResult
    /\ spoolOpen = FALSE
    /\ zipOpen = FALSE
    /\ fetched = <<>>

\* latest_dataset up to its call of get_latest_version_url: the spool is
\* created first.
LatestDatasetEnter ==
    /\ caller = "latest_dataset"
    /\ ldPc = "begin"
    /\ spoolOpen' = TRUE
    /\ ldPc' = "probing"
    /\ UNCHANGED <<caller, start, current, latest, probes, lvResult, zipOpen, fetched>>
    /\ UNCHANGED notLocate

\* A direct call get_latest_version_url(start).
DirectCall ==
    /\ caller = "direct"
    /\ ldPc = "begin"
    /\ ldPc' = "probing"
    /\ UNCHANGED <<caller, start, current, latest, probes, lvResult, spoolOpen, zipOpen, fetched>>
    /\ UNCHANGED notLocate

\* What get_latest_version_url returns at the first status that is not 200.
LocateReturnWrongUrl(cur, lat, url) == <<cur - 1, url>>

LocateReturn(cur, lat, url) == <<cur - 1, lat>>

\* One iteration of the loop over count(start): the HEAD request is answered.
ProbeAnswered(status, url) ==
    /\ ldPc = "probing"
    /\ Len(probes) < MaxProbes
    /\ probes' = Append(probes, [version |-> current, status |-> status, url |-> url])
    /\ IF status # 200
       THEN /\ lvResult' = LocateReturn(current, latest, url)
            /\ ldPc' = "located"
            /\ UNCHANGED <<current, latest>>
       ELSE /\ latest' = url
            /\ current' = current + 1
            /\ UNCHANGED <<lvResult, ldPc>>
    /\ UNCHANGED <<caller, start, spoolOpen, zipOpen, fetched>>
    /\ UNCHANGED notLocate

\* One iteration of the loop in which http.head raises (transport failure):
\* the exception leaves get_latest_version_url, and latest_dataset with it.
ProbeRaises ==
    /\ ldPc = "probing"
    /\ Len(probes) < MaxProbes
    /\ probes' = Append(probes, [version |-> current, status |-> 0, url |-> None])
    /\ ldPc' = "raised"
    /\ UNCHANGED <<caller, start, current, latest, lvResult, spoolOpen, zipOpen, fetched>>
    /\ UNCHANGED notLocate

\* latest_dataset from the unpacking of the result to its yield: http.get is
\* called with the located URL whatever it is; a URL of None is refused by
\* the HTTP library with an exception, any other download may fail or
\* succeed, and ZipFile then opens the spool.
Fetch ==
    /\ caller = "latest_dataset"
    /\ ldPc = "located"
    /\ fetched' = Append(fetched, lvResult[2])
    /\ \E ok \in BOOLEAN :
          IF ok /\ lvResult[2] # None
          THEN zipOpen' = TRUE /\ ldPc' = "yielded"
          ELSE zipOpen' = zipOpen /\ ldPc' = "raised"
    /\ UNCHANGED <<caller, start, current, latest, probes, lvResult, spoolOpen>>
    /\ UNCHANGED notLocate

\* The with-body returns: the generator resumes after its yield.
ConsumerReturns ==
    /\ ldPc = "yielded"
    /\ zipOpen' = FALSE
    /\ spoolOpen' = FALSE
    /\ ldPc' = "done"
    /\ UNCHANGED <<caller, start, current, latest, probes, lvResult, fetched>>
    /\ UNCHANGED notLocate

\* The with-body raises: the exception is thrown into the generator at its
\* yield, which has no try/finally, so nothing after the yield runs.
ConsumerRaises ==
    /\ ldPc = "yielded"
    /\ ldPc' = "raised"
    /\ UNCHANGED <<caller, start, current, latest, probes, lvResult, spoolOpen, zipOpen, fetched>>
    /\ UNCHANGED notLocate

NextLocate ==
    \/ LatestDatasetEnter
    \/ DirectCall
    \/ \E status \in StatusCodes, url \in Urls : ProbeAnswered(status, url)
    \/ ProbeRaises
    \/ Fetch
    \/ ConsumerReturns
    \/ ConsumerRaises


-----------------------------------------------------------------------------
(* Tables: _recreate, cursor.executemany, _extract_values, _simple_store *)

\* A field of a column list: a plain name, or the tuple (name, type).
F(n) == [name |-> n, tuple |-> FALSE]
FT(n, t) == [name |-> n, tuple |-> TRUE, type |-> t]

\* '@' + name, over the attribute names the callers use.
At(n) ==
    CASE n = "name" -> "@name"
      [] n = "description" -> "@description"
      [] n = "preferred" -> "@preferred"
      [] n = "alias" -> "@alias"
      [] n = "iso4217" -> "@iso4217"
      [] n = "digits" -> "@digits"
      [] n = "rounding" -> "@rounding"
      [] n = "cashDigits" -> "@cashDigits"
      [] n = "cashRounding" -> "@cashRounding"

NoTable == [exists |-> FALSE, cols |-> <<>>, rows |-> <<>>]

\* The column definitions _recreate formats: "name type" for a tuple,
\* "name text" for a plain name.
Columns(fields) ==
    [n \in DOMAIN fields |->
        IF fields[n].tuple
        THEN [name |-> fields[n].name, type |-> fields[n].type]
        ELSE [name |-> fields[n].name, type |-> "text"]]

\* DROP TABLE name: fails with OperationalError when there is no such table.
DropTable(d, name) ==
    IF d[name].exists
    THEN [db |-> [d EXCEPT ![name] = NoTable], ok |-> TRUE]
    ELSE [db |-> d, ok |-> FALSE]

\* CREATE TABLE name (columns): fails when the table exists.
CreateTable(d, name, cols) ==
    IF d[name].exists
    THEN [db |-> d, ok |-> FALSE]
    ELSE [db |-> [d EXCEPT ![name] = [exists |-> TRUE, cols |-> cols, rows |-> <<>>]],
          ok |-> TRUE]

\* A re-creation that keeps a table that is already there.
RecreateIfMissing(d, name, fields) ==
    IF d[name].exists THEN [db |-> d, ok |-> TRUE]
    ELSE CreateTable(d, name, Columns(fields))

\* _recreate: the failure of the DROP is swallowed, the CREATE follows.
Recreate(d, name, fields) ==
    CreateTable(DropTable(d, name).db, name, Columns(fields))

\* The rows executemany binds before the first row whose length is not the
\* number of placeholders.
RECURSIVE BindablePrefix(_, _)
BindablePrefix(rows, nph) ==
    IF rows = <<>> \/ Len(Head(rows)) # nph THEN <<>>
    ELSE <<Head(rows)>> \o BindablePrefix(Tail(rows), nph)

\* cursor.executemany("INSERT INTO name VALUES (?, ...)", rows) with nph
\* placeholders; raised tells that the row source itself raised after its
\* last row.  The statement is refused when the table is missing or has
\* another number of columns; a row of the wrong length stops the batch, the
\* rows before it stay inserted.
Executemany(d, name, nph, rows, raised) ==
    IF ~d[name].exists \/ Len(d[name].cols) # nph
    THEN [db |-> d, ok |-> FALSE]
    ELSE LET good == BindablePrefix(rows, nph)
         IN [db |-> [d EXCEPT ![name].rows = @ \o good],
             ok |-> (good = rows) /\ ~raised]

\* The row _extract_values yields first for record i.
BaseRecord(i, aliased, names) ==
    LET record == [n \in DOMAIN names |-> Get(i, names[n].key, None)]
    IN IF aliased THEN Append(record, None) ELSE record

\* Whether building an alias row of record i raises KeyError: i[name] is
\* looked up for every name but '@name' (a tuple is never a key of i), and
\* i['@name'] for the trailing slot.
AliasRaises(i, names) ==
    \/ \E n \in DOMAIN names :
          \/ names[n].tuple
          \/ names[n].key # "@name" /\ names[n].key \notin DOMAIN i
    \/ "@name" \notin DOMAIN i

\* The row yielded for one alias of record i, when it can be built.
AliasRecord(i, names, alias) ==
    Append([n \in DOMAIN names |->
               IF ~names[n].tuple /\ names[n].key = "@name"
               THEN PyStr(alias) ELSE i[names[n].key]],
           i["@name"])

\* The rows yielded for record i, and whether the generator raised then.
RecordValues(i, aliased, names) ==
    LET base == <<BaseRecord(i, aliased, names)>>
        aliases == IF aliased /\ "@alias" \in DOMAIN i
                   THEN SplitWs(i["@alias"].v) ELSE <<>>
    IN IF aliases = <<>> THEN [rows |-> base, raised |-> FALSE]
       ELSE IF AliasRaises(i, names) THEN [rows |-> base, raised |-> TRUE]
       ELSE [rows |-> base \o [a \in DOMAIN aliases |-> AliasRecord(i, names, aliases[a])],
             raised |-> FALSE]

\* _extract_values: the rows the generator yields over data, up to the
\* record at which it raises.
RECURSIVE ExtractValues(_, _, _)
ExtractValues(data, aliased, names) ==
    IF data = <<>> THEN [rows |-> <<>>, raised |-> FALSE]
    ELSE LET first == RecordValues(Head(data), aliased, names)
         IN IF first.raised THEN first
            ELSE LET rest == ExtractValues(Tail(data), aliased, names)
                 IN [rows |-> first.rows \o rest.rows, raised |-> rest.raised]

\* The names _simple_store hands to _extract_values: '@' is prefixed, a
\* tuple stays a tuple.
Prefixed(names) ==
    [n \in DOMAIN names |->
        IF names[n].tuple
        THEN [key |-> At(names[n].name), tuple |-> TRUE, type |-> names[n].type]
        ELSE [key |-> At(names[n].name), tuple |-> FALSE]]

\* The column list of _simple_store.
FieldNames(aliased, names) ==
    IF aliased
    THEN [n \in DOMAIN names |-> F(names[n].name)] \o <<F("alias")>>
    ELSE names

\* _simple_store(name, cursor, data, aliased, *names).
SimpleStore(d, name, data, aliased, names) ==
    LET fields == FieldNames(aliased, names)
        made == Recreate(d, name, fields)
        values == ExtractValues(data, aliased, Prefixed(names))
    IN IF ~made.ok THEN made
       ELSE Executemany(made.db, name, Len(fields), values.rows, values.raised)

\* Every table name of the model.
TableNames == {"measure", "timezone", "rounding", "region",
               "containment", "containment_path", "language"}

EmptyDb == [n \in TableNames |-> NoTable]

\* A table left by an earlier run: other columns, one old row.
OldTable == [exists |-> TRUE,
             cols |-> Columns(<<F("old")>>),
             rows |-> <<<<PyStr(<<"o">>)>>>>]

-----------------------------------------------------------------------------
(* One call of _simple_store, as the extraction routines make it *)

\* Records per data list.
MaxRecords == 2

Absent == [k |-> "absent"]

\* The values of an @alias attribute: "", "b", "b c", "c b", " b ", "b  c".
AliasValues == {PyStr(<<>>), PyStr(<<"b">>), PyStr(<<"b", " ", "c">>),
                PyStr(<<"c", " ", "b">>), PyStr(<<" ", "b", " ">>),
                PyStr(<<"b", " ", " ", "c">>)}

\* The dict with the given attributes, an Absent one left out.
Attrs(keys, val) == [key \in {x \in keys : val[x] # Absent} |-> val[key]]

StoreRecords ==
    { Attrs({"@name", "@description", "@alias"},
            [x \in {"@name", "@description", "@alias"} |->
                CASE x = "@name" -> n [] x = "@description" -> d [] x = "@alias" -> a]) :
        n \in {Absent, PyStr(<<"f">>), PyStr(<<"g">>)},
        d \in {Absent, PyStr(<<"d">>)},
        a \in {Absent} \cup AliasValues }
    \cup { [x \in {"@iso4217", "@digits"} |->
                IF x = "@iso4217" THEN PyStr(<<"X">>) ELSE PyStr(<<"2">>)] }

\* The calls of _simple_store in the extraction routines: extract_measure
\* (aliased), extract_timezone, and the rounding table of the currency data.
StoreCalls ==
    { [table |-> "measure", aliased |-> TRUE,
       names |-> <<F("name"), F("description")>>],
      [table |-> "timezone", aliased |-> FALSE,
       names |-> <<F("name"), F("description"), F("preferred"), F("alias")>>],
      [table |-> "rounding", aliased |-> FALSE,
       names |-> <<F("iso4217"), FT("digits", "int")>>] }

InitStore ==
    /\ stPc = "ready"
    /\ stCall \in StoreCalls
    /\ stData \in UNION {[1..n -> StoreRecords] : n \in 0..MaxRecords}
    /\ db \in {EmptyDb, [EmptyDb EXCEPT ![stCall.table] = OldTable]}

IdleStore ==
    /\ stPc = "idle"
    /\ stCall = [table |-> "measure", aliased |-> FALSE, names |-> <<>>]
    /\ stData = <<>>

\* The call _simple_store(stCall.table, cursor, stData, stCall.aliased, *names).
StoreCall ==
    /\ stPc = "ready"
    /\ LET r == SimpleStore(db, stCall.table, stData, stCall.aliased, stCall.names)
       IN /\ db' = r.db
          /\ stPc' = IF r.ok THEN "done" ELSE "raised"
    /\ UNCHANGED <<stData, stCall>>
    /\ UNCHANGED notStore

NextStore == StoreCall

-----------------------------------------------------------------------------
(* Any sequence of _recreate and executemany calls on one table *)

\* The table the sequence works on.
TbName == "region"

\* Rows a table may hold before no further batch is issued.
MaxRows == 3

\* Rows per batch.
MaxBatch == 2

\* Recreations per run.
MaxRecreates == 3

\* The column lists handed to _recreate.
TbFieldLists == { <<F("region")>>, <<F("region"), FT("tender", "bool")>> }

TbValues == {None, PyStr(<<"x">>)}

\* The rows a statement with nph placeholders is given: the callers build
\* every row of a batch with as many values as the statement has placeholders.
TbRows(nph) == [1..nph -> TbValues]

TbBatches(nph) == UNION {[1..n -> TbRows(nph)] : n \in 0..MaxBatch}

InitTable ==
    /\ tbPc = 0
    /\ db \in {EmptyDb, [EmptyDb EXCEPT ![TbName] = OldTable]}
    /\ recreated = FALSE
    /\ lastFields = <<>>
    /\ sinceRecreate = <<>>
    /\ runLength = 0
    /\ firstOfRun = NoTable
    /\ discarded = FALSE
    /\ ranTwice = FALSE

IdleTable ==
    /\ tbPc = -1
    /\ recreated = FALSE
    /\ lastFields = <<>>
    /\ sinceRecreate = <<>>
    /\ runLength = 0
    /\ firstOfRun = NoTable
    /\ discarded = FALSE
    /\ ranTwice = FALSE

\* _recreate(cursor, TbName, *fields).  tbPc counts the recreations.
TbRecreate(fields) ==
    /\ tbPc >= 0
    /\ tbPc < MaxRecreates
    /\ LET r == Recreate(db, TbName, fields)
           again == runLength >= 1 /\ lastFields = fields
       IN /\ db' = r.db
          /\ recreated' = TRUE
          /\ lastFields' = fields
          /\ sinceRecreate' = <<>>
          /\ runLength' = IF again THEN 2 ELSE 1
          /\ firstOfRun' = IF again THEN firstOfRun ELSE r.db[TbName]
          /\ discarded' = (discarded \/ db[TbName].rows # <<>>)
          /\ ranTwice' = (ranTwice \/ again)
    /\ tbPc' = tbPc + 1
    /\ UNCHANGED notTable

\* cursor.executemany("INSERT INTO TbName VALUES (?, ...)", rows) with nph
\* placeholders.
TbInsert(nph, rows) ==
    /\ tbPc >= 0
    /\ Len(db[TbName].rows) + Len(rows) <= MaxRows
    /\ LET r == Executemany(db, TbName, nph, rows, FALSE)
       IN /\ db' = r.db
          /\ sinceRecreate' =
                IF recreated /\ nph = Len(lastFields)
                THEN sinceRecreate \o rows
                ELSE sinceRecreate
    /\ runLength' = 0
    /\ UNCHANGED <<tbPc, recreated, lastFields, firstOfRun, discarded, ranTwice>>
    /\ UNCHANGED notTable

NextTable ==
    \/ \E fields \in TbFieldLists : TbRecreate(fields)
    \/ \E nph \in {Len(f) : f \in TbFieldLists} : \E rows \in TbBatches(nph) :
          TbInsert(nph, rows)

-----------------------------------------------------------------------------
(* TerritorySupplementalDataset.extract_supplementalData *)

\* The root sentinel '001', and the key 'EU' that gets no path.
Root == <<"0", "0", "1">>
EU == <<"E", "U">>

Deprecated == PyStr(<<"d", "e", "p", "r", "e", "c", "a", "t", "e", "d">>)
Grouping == PyStr(<<"g", "r", "o", "u", "p", "i", "n", "g">>)
Secondary == PyStr(<<"s", "e", "c", "o", "n", "d", "a", "r", "y">>)

\* mapping[key] = value
Put(m, key, value) ==
    [x \in DOMAIN m \cup {key} |-> IF x = key THEN value ELSE m[x]]

\* The empty dict and list the group loop starts from.  keys lists the
\* mapping's keys in the order of their first insertion, the order in which
\* "for key in mapping" visits them.
NoContainment == [values |-> <<>>, mapping |-> <<>>, keys |-> <<>>]

\* The loop over the members of one group.
RECURSIVE AddMembers(_, _, _, _)
AddMembers(members, type, intermediary, acc) ==
    IF members = <<>> THEN acc
    ELSE LET member == Head(members)
         IN AddMembers(Tail(members), type, intermediary,
               [values |-> Append(acc.values,
                                  <<PyStr(type), PyStr(member), PyBool(intermediary)>>),
                mapping |-> Put(acc.mapping, member, type),
                keys |-> IF member \in DOMAIN acc.mapping THEN acc.keys
                         ELSE Append(acc.keys, member)])

\* The intermediary flag of a group: its 'status' entry is 'grouping', or
\* every member is numeric.
Intermediary(group, members) ==
    \/ Get(group, "status", None) = Grouping
    \/ \A i \in DOMAIN members : IsNumeric(members[i])

\* The loop over the groups: a deprecated group is skipped.
RECURSIVE ContainmentOf(_, _)
ContainmentOf(groups, acc) ==
    IF groups = <<>> THEN acc
    ELSE LET group == Head(groups)
             members == SplitWs(group["@contains"].v)
         IN IF Get(group, "@status", None) = Deprecated
            THEN ContainmentOf(Tail(groups), acc)
            ELSE ContainmentOf(Tail(groups),
                    AddMembers(members, group["@type"].v,
                               Intermediary(group, members), acc))

\* The body of "while parent" with the sentinel appended before the loop is
\* left.
WalkBodyInclusive(m, par, pth) ==
    LET next == IF par.v \in DOMAIN m THEN PyStr(m[par.v]) ELSE None
    IN [parent |-> next,
        path |-> IF next = PyStr(Root) THEN pth \o <<par.v, Root>> ELSE Append(pth, par.v),
        break |-> next = PyStr(Root)]

\* The body of "while parent": the parent is appended, its own parent looked
\* up, and the loop left at once when that is the sentinel.
WalkBody(m, par, pth) ==
    LET next == IF par.v \in DOMAIN m THEN PyStr(m[par.v]) ELSE None
    IN [parent |-> next, path |-> Append(pth, par.v), break |-> next = PyStr(Root)]

\* The rows of the language table, and whether building them raised
\* KeyError (an entry with territories and no '@type').
RECURSIVE LanguageRows(_)
LanguageRows(languages) ==
    IF languages = <<>> THEN [rows |-> <<>>, raised |-> FALSE]
    ELSE LET language == Head(languages)
             territories == IF "@territories" \in DOMAIN language
                            THEN SplitWs(language["@territories"].v) ELSE <<>>
             scripts == IF "@scripts" \in DOMAIN language
                        THEN [s \in DOMAIN SplitWs(language["@scripts"].v) |->
                                 PyStr(SplitWs(language["@scripts"].v)[s])]
                        ELSE <<None>>
             n == Len(scripts)
         IN IF territories = <<>> \/ scripts = <<>>
            THEN LanguageRows(Tail(languages))
            ELSE IF "@type" \notin DOMAIN language
            THEN [rows |-> <<>>, raised |-> TRUE]
            ELSE LET mine == [x \in 1..(Len(territories) * n) |->
                                <<PyStr(territories[((x - 1) \div n) + 1]),
                                  language["@type"],
                                  scripts[((x - 1) % n) + 1],
                                  PyBool(Get(language, "@alt", None) = Secondary)>>]
                     rest == LanguageRows(Tail(languages))
                 IN [rows |-> mine \o rest.rows, raised |-> rest.raised]

\* Groups per input in which the status marks vary.
MaxGroups == 2

\* Groups per input in which the groups carry no status mark.
MaxChainGroups == 3

\* The path list is unbounded in a walk that never ends; the model keeps
\* its first PathCap elements and goes on walking, tick being the parity of
\* the number of loop bodies run for the current key.
PathCap == MaxChainGroups + MaxGroups + 1

\* The @type values of the groups: '001', 'B', 'C' and the empty string.
GroupTypes == {Root, <<"B">>, <<"C">>, <<>>}

\* The @contains values of the groups: 'A', 'B', 'C', 'EU 2', '2 3'.
ContainsValues == {<<"A">>, <<"B">>, <<"C">>, <<"E", "U", " ", "2">>, <<"2", " ", "3">>}

\* The status marks of a group, as (status attribute, 'status' entry): none,
\* or the status attribute 'deprecated' or 'grouping'.  A group element has
\* attributes only, which the XML decoding keys with '@'.
StatusMarks ==
    { <<Absent, Absent>>, <<Deprecated, Absent>>, <<Grouping, Absent>> }

GroupOf(type, contains, marks) ==
    Attrs({"@type", "@contains", "@status", "status"},
          [x \in {"@type", "@contains", "@status", "status"} |->
              CASE x = "@type" -> PyStr(type)
                [] x = "@contains" -> PyStr(contains)
                [] x = "@status" -> marks[1]
                [] x = "status" -> marks[2]])

MarkedGroups ==
    {GroupOf(t, c, s) : t \in GroupTypes \ {<<>>}, c \in ContainsValues, s \in StatusMarks}

PlainGroups ==
    {GroupOf(t, c, <<Absent, Absent>>) : t \in GroupTypes, c \in {<<"A">>, <<"B">>, <<"C">>}}

ChainGroupLists == UNION {[1..n -> PlainGroups] : n \in 0..MaxChainGroups}

GroupLists == UNION {[1..n -> MarkedGroups] : n \in 0..MaxGroups} \cup ChainGroupLists

\* The language entries: one with a script, one secondary without script
\* followed by one without territories, one without '@type'.
LanguageLists ==
    { << [x \in {"@type", "@territories", "@scripts"} |->
            CASE x = "@type" -> PyStr(<<"e", "n">>)
              [] x = "@territories" -> PyStr(<<"A", " ", "B">>)
              [] x = "@scripts" -> PyStr(<<"L">>)] >>,
      << [x \in {"@type", "@territories", "@alt"} |->
            CASE x = "@type" -> PyStr(<<"f", "r">>)
              [] x = "@territories" -> PyStr(<<"A">>)
              [] x = "@alt" -> Secondary],
         [x \in {"@type"} |-> PyStr(<<"x">>)] >>,
      << [x \in {"@territories"} |-> PyStr(<<"A">>)] >> }

InitTerritory(lists) ==
    /\ tPc = "start"
    /\ tGroups \in lists
    /\ mapping = <<>>
    /\ mapKeys = <<>>
    /\ keyIdx = 0
    /\ parent = None
    /\ path = <<>>
    /\ tick = 0
    /\ pathValues = <<>>
    /\ db \in {EmptyDb, [EmptyDb EXCEPT !["containment_path"] = OldTable]}

IdleTerritory ==
    /\ tPc = "idle"
    /\ tGroups = <<>>
    /\ mapping = <<>>
    /\ mapKeys = <<>>
    /\ keyIdx = 0
    /\ parent = None
    /\ path = <<>>
    /\ tick = 0
    /\ pathValues = <<>>

\* Lines 214 to 242: the three tables are re-created, the groups walked and
\* the containment rows inserted.
TerritoryContainment ==
    /\ tPc = "start"
    /\ LET c == ContainmentOf(tGroups, NoContainment)
           d1 == Recreate(db, "containment",
                          <<F("parent"), F("child"), F("intermediary")>>).db
           d2 == Recreate(d1, "containment_path", <<F("territory"), F("path")>>).db
           d3 == Recreate(d2, "language",
                          <<F("territory"), F("language"), F("script"),
                            FT("secondary", "bool")>>).db
       IN /\ db' = Executemany(d3, "containment", 3, c.values, FALSE).db
          /\ mapping' = c.mapping
          /\ mapKeys' = c.keys
    /\ keyIdx' = 1
    /\ pathValues' = <<>>
    /\ tPc' = "for"
    /\ UNCHANGED <<tGroups, parent, path, tick>>
    /\ UNCHANGED notTerritory

\* "for key in mapping": a numeric key and 'EU' are passed over; for any
\* other key the walk starts at its parent with an empty path.
WalkBegin ==
    /\ tPc = "for"
    /\ keyIdx <= Len(mapKeys)
    /\ LET key == mapKeys[keyIdx]
       IN IF IsNumeric(key) \/ key = EU
          THEN /\ keyIdx' = keyIdx + 1
               /\ UNCHANGED <<tPc, parent, path>>
          ELSE /\ parent' = PyStr(mapping[key])
               /\ path' = <<>>
               /\ tPc' = "while"
               /\ UNCHANGED keyIdx
    /\ tick' = 0
    /\ UNCHANGED <<tGroups, mapping, mapKeys, pathValues, db>>
    /\ UNCHANGED notTerritory

\* One test of "while parent" and, when it holds, one run of the body; when
\* the loop is left, the row (key, ' '.join(path)) is appended to values.
WalkStep ==
    /\ tPc = "while"
    /\ LET key == mapKeys[keyIdx]
           b == WalkBody(mapping, parent, path)
           row(p) == <<PyStr(key), PyStr(JoinSp(p))>>
       IN IF ~Truthy(parent)
          THEN /\ pathValues' = Append(pathValues, row(path))
               /\ keyIdx' = keyIdx + 1
               /\ tPc' = "for"
               /\ UNCHANGED <<parent, path, tick>>
          ELSE IF b.break
          THEN /\ pathValues' = Append(pathValues, row(b.path))
               /\ keyIdx' = keyIdx + 1
               /\ tPc' = "for"
               /\ parent' = b.parent
               /\ path' = b.path
               /\ tick' = 1 - tick
          ELSE /\ parent' = b.parent
               /\ path' = IF Len(path) < PathCap THEN b.path ELSE path
               /\ tick' = 1 - tick
               /\ UNCHANGED <<pathValues, keyIdx, tPc>>
    /\ UNCHANGED <<tGroups, mapping, mapKeys, db>>
    /\ UNCHANGED notTerritory

\* Lines 256 to 274: the path rows are inserted, the language rows built
\* and inserted.
TerritoryFinish(languages) ==
    /\ tPc = "for"
    /\ keyIdx > Len(mapKeys)
    /\ LET d1 == Executemany(db, "containment_path", 2, pathValues, FALSE).db
           l == LanguageRows(languages)
       IN IF l.raised
          THEN db' = d1 /\ tPc' = "raised"
          ELSE db' = Executemany(d1, "language", 4, l.rows, FALSE).db /\ tPc' = "done"
    /\ UNCHANGED <<tGroups, mapping, mapKeys, keyIdx, parent, path, tick, pathValues>>
    /\ UNCHANGED notTerritory

NextTerritory ==
    \/ TerritoryContainment
    \/ WalkBegin
    \/ WalkStep
    \/ \E languages \in LanguageLists : TerritoryFinish(languages)

-----------------------------------------------------------------------------
(* to_date, to_bool and CurrencySupplementalDataset.extract_supplementalData *)

PyDate(y, m, d) == [k |-> "date", y |-> y, m |-> m, d |-> d]

\* a == b between Python values: a bool compares as the integer 0 or 1, a
\* string equals only a string, None only None.
PyEq(a, b) ==
    LET num(x) == IF x.k = "bool" THEN (IF x.v THEN 1 ELSE 0) ELSE x.v
    IN IF a.k \in {"bool", "int"} /\ b.k \in {"bool", "int"} THEN num(a) = num(b)
       ELSE a = b

\* The two lists to_bool looks its value up in.
TrueTokens == <<PyBool(TRUE), PyInt(1), PyStr(<<"y", "e", "s">>), PyStr(<<"t", "r", "u", "e">>)>>
FalseTokens == <<PyBool(FALSE), PyInt(0), PyStr(<<"n", "o">>), PyStr(<<"f", "a", "l", "s", "e">>)>>

\* "value in list"
InList(v, list) == \E i \in DOMAIN list : PyEq(v, list[i])

\* A cast that knows the true tokens only.
ToBoolTrueTokensOnly(value) ==
    IF InList(value, TrueTokens) THEN TRUE ELSE Truthy(value)

\* to_bool
ToBool(value) ==
    IF InList(value, TrueTokens) THEN TRUE
    ELSE IF InList(value, FalseTokens) THEN FALSE
    ELSE Truthy(value)

DigitValue(c) ==
    CASE c = "0" -> 0 [] c = "1" -> 1 [] c = "2" -> 2 [] c = "3" -> 3 [] c = "4" -> 4
      [] c = "5" -> 5 [] c = "6" -> 6 [] c = "7" -> 7 [] c = "8" -> 8 [] c = "9" -> 9

\* int(s) of a string of digits; anything else raises ValueError.
IsInt(s) == s # <<>> /\ \A i \in DOMAIN s : s[i] \in Digits

RECURSIVE IntOf(_)
IntOf(s) ==
    IF s = <<>> THEN 0 ELSE IntOf(SubSeq(s, 1, Len(s) - 1)) * 10 + DigitValue(s[Len(s)])

IsLeap(y) == (y % 4 = 0 /\ y % 100 # 0) \/ y % 400 = 0

DaysIn(y, m) ==
    IF m = 2 THEN (IF IsLeap(y) THEN 29 ELSE 28)
    ELSE IF m \in {4, 6, 9, 11} THEN 30 ELSE 31

\* to_date: a false value is returned as it is; otherwise the string is
\* split at '-', every part converted by int, and date(*parts) built, which
\* raises unless there are three parts that name a day of the calendar.
ToDate(value) ==
    IF ~Truthy(value) THEN [ok |-> TRUE, value |-> value]
    ELSE LET parts == SplitSep(value.v, "-")
         IN IF \E i \in DOMAIN parts : ~IsInt(parts[i]) THEN [ok |-> FALSE, value |-> None]
            ELSE IF Len(parts) # 3 THEN [ok |-> FALSE, value |-> None]
            ELSE LET y == IntOf(parts[1])
                     m == IntOf(parts[2])
                     d == IntOf(parts[3])
                 IN IF y \in 1..9999 /\ m \in 1..12 /\ d \in 1..DaysIn(y, m)
                    THEN [ok |-> TRUE, value |-> PyDate(y, m, d)]
                    ELSE [ok |-> FALSE, value |-> None]

\* region['currency'] as a list: a single entry (a dict) becomes a list of
\* one.
CurrencyList(region) ==
    IF region["currency"].list THEN region["currency"].items
    ELSE <<region["currency"].item>>

\* The tuple built for one currency of one region, and whether building it
\* raised (a missing code, a date that cannot be built).
RegionRow(region, currency) ==
    LET from == ToDate(Get(currency, "@from", None))
        to == ToDate(Get(currency, "@to", None))
    IN IF "@iso3166" \notin DOMAIN region \/ "@iso4217" \notin DOMAIN currency
          \/ ~from.ok \/ ~to.ok
       THEN [ok |-> FALSE, row |-> <<>>]
       ELSE [ok |-> TRUE,
             row |-> <<region["@iso3166"], currency["@iso4217"], from.value, to.value,
                       PyBool(ToBool(Get(currency, "@tender", PyBool(TRUE))))>>]

\* The loop over the regions and their currencies: the rows, or a failure.
RECURSIVE RegionRows(_)
RegionRows(pairs) ==
    IF pairs = <<>> THEN [ok |-> TRUE, rows |-> <<>>]
    ELSE LET first == RegionRow(pairs[1][1], pairs[1][2])
             rest == RegionRows(Tail(pairs))
         IN IF first.ok /\ rest.ok
            THEN [ok |-> TRUE, rows |-> <<first.row>> \o rest.rows]
            ELSE [ok |-> FALSE, rows |-> <<>>]

\* The (region, currency) pairs in the order the two loops visit them.
RECURSIVE RegionPairs(_)
RegionPairs(regions) ==
    IF regions = <<>> THEN <<>>
    ELSE LET region == Head(regions)
             list == CurrencyList(region)
         IN [i \in DOMAIN list |-> <<region, list[i]>>] \o RegionPairs(Tail(regions))

\* Currency entries over all the regions of one input.
MaxEntries == 2

US == PyStr(<<"U", "S">>)
FR == PyStr(<<"F", "R">>)

\* '1999-01-01', '1998-12-31' and '1999' (no day of the calendar).
DateFrom == PyStr(<<"1", "9", "9", "9", "-", "0", "1", "-", "0", "1">>)
DateTo == PyStr(<<"1", "9", "9", "8", "-", "1", "2", "-", "3", "1">>)
DateYearOnly == PyStr(<<"1", "9", "9", "9">>)

\* A currency entry with the given @from, @to and @tender.
CurrencyEntry(f, t, b) ==
    Attrs({"@iso4217", "@from", "@to", "@tender"},
          [x \in {"@iso4217", "@from", "@to", "@tender"} |->
              CASE x = "@iso4217" -> PyStr(<<"X">>)
                [] x = "@from" -> f [] x = "@to" -> t [] x = "@tender" -> b])

CurrencyEntries ==
    { CurrencyEntry(Absent, Absent, Absent),
      CurrencyEntry(DateFrom, Absent, Absent),
      CurrencyEntry(Absent, DateTo, FalseTokens[4]),
      CurrencyEntry(Absent, Absent, FalseTokens[4]),
      CurrencyEntry(Absent, Absent, TrueTokens[3]),
      CurrencyEntry(Absent, DateYearOnly, Absent) }

\* A region whose currency is one entry, or a list of n entries.
RegionsOf(n) ==
    { [x \in {"@iso3166", "currency"} |->
          IF x = "@iso3166" THEN c ELSE [list |-> TRUE, items |-> l]] :
        c \in {US, FR}, l \in [1..n -> CurrencyEntries] }
    \cup (IF n # 1 THEN {}
          ELSE { [x \in {"@iso3166", "currency"} |->
                    IF x = "@iso3166" THEN c ELSE [list |-> FALSE, item |-> e]] :
                  c \in {US, FR}, e \in CurrencyEntries })

\* The region lists with n currency entries in all.
RECURSIVE ContentsOf(_)
ContentsOf(n) ==
    IF n = 0 THEN {<<>>}
    ELSE UNION { { <<r>> \o rest : r \in RegionsOf(j), rest \in ContentsOf(n - j) } :
                 j \in 1..n }

CurrencyContents == UNION {ContentsOf(n) : n \in 0..MaxEntries}

\* The fraction-info records of the rounding table.
RoundingData ==
    { <<>>,
      << [x \in {"@iso4217", "@digits"} |->
             IF x = "@iso4217" THEN PyStr(<<"X">>) ELSE PyStr(<<"2">>)] >> }

\* The values to_bool is applied to.
CastValues ==
    { None, PyBool(TRUE), PyBool(FALSE), PyInt(0), PyInt(1), PyInt(2),
      PyStr(<<>>), PyStr(<<"0">>), PyStr(<<"F", "a", "l", "s", "e">>) }
    \cup {TrueTokens[i] : i \in DOMAIN TrueTokens}
    \cup {FalseTokens[i] : i \in DOMAIN FalseTokens}

\* The value to_bool is applied to on its own: any of CastValues beside an
\* empty region list, otherwise the tender value the extraction hands it
\* for the first currency.
InitCurrency ==
    /\ cPc = "start"
    /\ cRegions \in CurrencyContents
    /\ castIn \in (IF cRegions = <<>> THEN CastValues
                   ELSE {Get(RegionPairs(cRegions)[1][2], "@tender", PyBool(TRUE))})
    /\ castOut = None
    /\ db = [EmptyDb EXCEPT !["region"] = OldTable]

IdleCurrency ==
    /\ cPc = "idle"
    /\ cRegions = <<>>
    /\ castIn = None
    /\ castOut = None

\* to_bool(castIn)
CastBool ==
    /\ cPc # "idle"
    /\ castOut = None
    /\ castOut' = PyBool(ToBool(castIn))
    /\ UNCHANGED <<cPc, cRegions, castIn, db>>
    /\ UNCHANGED notCurrency

\* extract_supplementalData(content, cursor) of the currency dataset: the
\* rounding table is stored, the region table re-created, the rows built and
\* inserted; a failure while building the rows leaves the new table empty.
CurrencyExtract(rounding) ==
    /\ cPc = "start"
    /\ LET stored == SimpleStore(db, "rounding", rounding, FALSE,
                                 <<F("iso4217"), FT("digits", "int"), FT("rounding", "int"),
                                   FT("cashDigits", "int"), FT("cashRounding", "int")>>)
           made == Recreate(stored.db, "region",
                            <<F("region"), F("currency"), F("start"), F("end"),
                              FT("tender", "bool")>>)
           values == RegionRows(RegionPairs(cRegions))
       IN IF ~values.ok
          THEN db' = made.db /\ cPc' = "raised"
          ELSE db' = Executemany(made.db, "region", 5, values.rows, FALSE).db /\ cPc' = "done"
    /\ UNCHANGED <<cRegions, castIn, castOut>>
    /\ UNCHANGED notCurrency

NextCurrency ==
    \/ CastBool
    \/ \E rounding \in RoundingData : CurrencyExtract(rounding)

-----------------------------------------------------------------------------
(* update_cldr_dataset and Dataset.__call__ *)

\* The dataset classes in the order update_cldr_dataset runs them, each
\* with its extract_ methods in the order dir() lists them.
Datasets ==
    << [NAME |-> "bcp47", PREFIX |-> "bcp47",
        extractors |-> <<"calendar", "collation", "currency", "measure", "number",
                         "timezone", "variant">>],
       [NAME |-> "currency", PREFIX |-> "supplemental",
        extractors |-> <<"supplementalData">>],
       [NAME |-> "territory", PREFIX |-> "supplemental",
        extractors |-> <<"supplementalData", "telephoneCodeData">>] >>

\* "common/{}/{}.xml".format(prefix, name), kept as the pair of its parts.
Filename(prefix, name) == <<prefix, name>>

\* The members a run asks the archive for.
Filenames ==
    UNION { { Filename(Datasets[d].PREFIX, Datasets[d].extractors[i]) :
                i \in DOMAIN Datasets[d].extractors } : d \in DOMAIN Datasets }

\* Every routine of the run, as <<dataset name, routine name>>.
Routines ==
    UNION { { <<Datasets[d].NAME, Datasets[d].extractors[i]>> :
                i \in DOMAIN Datasets[d].extractors } : d \in DOMAIN Datasets }

\* The resources of a run: the archive handle, one connection for each
\* dataset, one stream for each member a dataset opens.
ArchiveHandle == <<"archive", <<"core.zip">>>>
Connection(name) == <<"connection", <<name>>>>
Stream(name, file) == <<name, file>>

\* What an extractor does with the content handed to it.
Outcomes == {"ok", "projection error", "storage error"}

Acquire(r) ==
    /\ rOpen' = rOpen \cup {r}
    /\ rAcquired' = rAcquired \cup {r}

Release(r) ==
    /\ rOpen' = rOpen \ {r}
    /\ rReleased' = rReleased \cup {r}
    /\ rTwice' = (rTwice \/ r \in rReleased)

InitRun ==
    /\ rPc = "start"
    /\ rDataset = 0
    /\ rRoutine = 0
    /\ rMembers \in SUBSET Filenames
    /\ rOpen = {}
    /\ rAcquired = {}
    /\ rReleased = {}
    /\ rTwice = FALSE
    /\ rInvoked = {}
    /\ rCommitted = {}
    /\ rFailure = None

IdleRun ==
    /\ rPc = "idle"
    /\ rDataset = 0
    /\ rRoutine = 0
    /\ rMembers = {}
    /\ rOpen = {}
    /\ rAcquired = {}
    /\ rReleased = {}
    /\ rTwice = FALSE
    /\ rInvoked = {}
    /\ rCommitted = {}
    /\ rFailure = None

\* fh = ZipFile('core.zip', 'r')
RunBegin ==
    /\ rPc = "start"
    /\ Acquire(ArchiveHandle)
    /\ rDataset' = 1
    /\ rPc' = "dataset"
    /\ UNCHANGED <<rRoutine, rMembers, rReleased, rTwice, rInvoked, rCommitted, rFailure>>
    /\ UNCHANGED notRun

\* ds(fh) up to the first extractor: _database connects and yields.
DatabaseEnter ==
    /\ rPc = "dataset"
    /\ rDataset \in DOMAIN Datasets
    /\ Acquire(Connection(Datasets[rDataset].NAME))
    /\ rRoutine' = 1
    /\ rPc' = "routine"
    /\ UNCHANGED <<rDataset, rMembers, rReleased, rTwice, rInvoked, rCommitted, rFailure>>
    /\ UNCHANGED notRun

\* data = archive.open(filename, 'rU'): a member the archive does not hold
\* raises KeyError, which nothing on the way out of the run catches.
ArchiveOpen ==
    /\ rPc = "routine"
    /\ rRoutine \in DOMAIN Datasets[rDataset].extractors
    /\ LET ds == Datasets[rDataset]
           file == Filename(ds.PREFIX, ds.extractors[rRoutine])
       IN IF file \in rMembers
          THEN /\ Acquire(Stream(ds.NAME, file))
               /\ rPc' = "extract"
               /\ UNCHANGED rFailure
          ELSE /\ rPc' = "raised"
               /\ rFailure' = PyStr(<<"KeyError">>)
               /\ UNCHANGED <<rOpen, rAcquired>>
    /\ UNCHANGED <<rDataset, rRoutine, rMembers, rReleased, rTwice, rInvoked, rCommitted>>
    /\ UNCHANGED notRun

\* with _cursor(db) as cursor: extractor(parse(data.read()), cursor), then
\* data.close().  The commit of _cursor and the close both follow the
\* extractor's return; an exception of the extractor skips them and leaves
\* the loop, _database and update_cldr_dataset.
Extract(outcome) ==
    /\ rPc = "extract"
    /\ LET ds == Datasets[rDataset]
           name == ds.extractors[rRoutine]
       IN /\ rInvoked' = rInvoked \cup {<<ds.NAME, name>>}
          /\ IF outcome = "ok"
             THEN /\ rCommitted' = rCommitted \cup {<<ds.NAME, name>>}
                  /\ Release(Stream(ds.NAME, Filename(ds.PREFIX, name)))
                  /\ rRoutine' = rRoutine + 1
                  /\ rPc' = "routine"
                  /\ UNCHANGED rFailure
             ELSE /\ rPc' = "raised"
                  /\ rFailure' = PyStr(<<outcome>>)
                  /\ UNCHANGED <<rCommitted, rOpen, rReleased, rTwice, rRoutine>>
    /\ UNCHANGED <<rDataset, rMembers, rAcquired>>
    /\ UNCHANGED notRun

\* The loop over the extractors is over: _database commits and closes.
DatabaseExit ==
    /\ rPc = "routine"
    /\ rRoutine \notin DOMAIN Datasets[rDataset].extractors
    /\ Release(Connection(Datasets[rDataset].NAME))
    /\ rDataset' = rDataset + 1
    /\ rPc' = "dataset"
    /\ UNCHANGED <<rRoutine, rMembers, rAcquired, rInvoked, rCommitted, rFailure>>
    /\ UNCHANGED notRun

\* fh.close()
RunEnd ==
    /\ rPc = "dataset"
    /\ rDataset \notin DOMAIN Datasets
    /\ Release(ArchiveHandle)
    /\ rPc' = "done"
    /\ UNCHANGED <<rDataset, rRoutine, rMembers, rAcquired, rInvoked, rCommitted, rFailure>>
    /\ UNCHANGED notRun

NextRun ==
    \/ RunBegin
    \/ DatabaseEnter
    \/ ArchiveOpen
    \/ \E outcome \in Outcomes : Extract(outcome)
    \/ DatabaseExit
    \/ RunEnd

-----------------------------------------------------------------------------
(* Specifications *)

\* Version discovery and latest_dataset.
LocateInit ==
    InitLocate /\ db = EmptyDb /\ IdleStore /\ IdleTable /\ IdleTerritory /\ IdleCurrency /\ IdleRun

SpecLocate == LocateInit /\ [][NextLocate]_vars

\* One call of _simple_store on drawn data.
StoreInit == IdleLocate /\ InitStore /\ IdleTable /\ IdleTerritory /\ IdleCurrency /\ IdleRun

SpecStore == StoreInit /\ [][NextStore]_vars

\* Sequences of _recreate and executemany on one table.
TableInit == IdleLocate /\ IdleStore /\ InitTable /\ IdleTerritory /\ IdleCurrency /\ IdleRun

SpecTable == TableInit /\ [][NextTable]_vars

\* The territory extraction over drawn groups.
TerritoryInit ==
    IdleLocate /\ IdleStore /\ IdleTable /\ InitTerritory(GroupLists) /\ IdleCurrency /\ IdleRun

\* The territory extraction over groups without status marks.
TerritoryChainInit ==
    IdleLocate /\ IdleStore /\ IdleTable /\ InitTerritory(ChainGroupLists) /\ IdleCurrency /\ IdleRun

SpecTerritory == TerritoryInit /\ [][NextTerritory]_vars

\* The same under the scheduling of a sequential program: a step that can
\* be taken is taken.
FairSpecTerritory ==
    TerritoryChainInit /\ [][NextTerritory]_vars /\ WF_vars(NextTerritory)

\* to_bool on drawn values and the currency extraction on drawn regions.
CurrencyInit == IdleLocate /\ IdleStore /\ IdleTable /\ IdleTerritory /\ InitCurrency /\ IdleRun

SpecCurrency == CurrencyInit /\ [][NextCurrency]_vars

\* One run of update_cldr_dataset over a drawn archive.
RunInit ==
    IdleLocate /\ db = EmptyDb /\ IdleStore /\ IdleTable /\ IdleTerritory /\ IdleCurrency
    /\ InitRun

SpecRun == RunInit /\ [][NextRun]_vars

-----------------------------------------------------------------------------
(* Claims *)

\* The probes made so far of version v.
ProbesOf(v) == {i \in DOMAIN probes : probes[i].version = v}

\* C1: whenever the probes of versions start..start+k were all answered 200
\* and the probe of start+k+1 was answered with another status,
\* get_latest_version_url has returned (start+k, U) with U the URL reported
\* by the probe of start+k, each version was probed once, and no version
\* above start+k+1 was probed.
C1_ReturnsLastConfirmed ==
    \A k \in 0..MaxProbes :
        ( /\ \A j \in 0..k : \E i \in ProbesOf(start + j) : probes[i].status = 200
          /\ \E i \in ProbesOf(start + k + 1) : probes[i].status \in StatusCodes \ {200} )
        => /\ lvResult # NoResult
           /\ lvResult[1] = start + k
           /\ \A i \in ProbesOf(start + k) : lvResult[2] = probes[i].url
           /\ \A j \in 0..(k + 1) : Cardinality(ProbesOf(start + j)) = 1
           /\ \A i \in DOMAIN probes : probes[i].version <= start + k + 1

\* A run in which two versions were confirmed with different URLs and the
\* failing third probe reported the URL of the first.
C1_Witness ==
    /\ lvResult # NoResult
    /\ Len(probes) = 3
    /\ probes[1].status = 200 /\ probes[2].status = 200 /\ probes[3].status = 404
    /\ probes[1].url # probes[2].url
    /\ probes[3].url = probes[1].url
    /\ lvResult = <<start + 1, probes[2].url>>

\* C2: when the first probe fails, get_latest_version_url never returns a
\* normal result whose URL is None, and latest_dataset never calls the
\* download with an undefined URL.
C2_FirstProbeFailureIsAnError ==
    /\ lvResult # NoResult => lvResult[2] # None
    /\ \A i \in DOMAIN fetched : fetched[i] # None


\* The rows the projection is to yield for record i with alias expansion:
\* the canonical row with a null alias-of slot, then one row per synonym of
\* the alias list, equal to the canonical row but for the name slot (the
\* synonym) and the alias-of slot (the canonical name).
C3_RowsOf(i, names) ==
    LET canonical == [n \in DOMAIN names |-> Get(i, At(names[n].name), None)]
        synonyms == IF "@alias" \in DOMAIN i THEN SplitWs(i["@alias"].v) ELSE <<>>
    IN <<Append(canonical, None)>> \o
       [a \in DOMAIN synonyms |->
           Append([n \in DOMAIN names |->
                      IF names[n].name = "name" THEN PyStr(synonyms[a]) ELSE canonical[n]],
                  i["@name"])]

RECURSIVE C3_RowsOfAll(_, _)
C3_RowsOfAll(data, names) ==
    IF data = <<>> THEN <<>>
    ELSE C3_RowsOf(Head(data), names) \o C3_RowsOfAll(Tail(data), names)

\* C3: with alias expansion enabled, a call of _simple_store over records
\* that all carry a canonical name completes and stores, for each record in
\* turn, its canonical row followed by one row per synonym, also when the
\* description is absent (that slot is then null in each of its rows).
C3_AliasRowsForEveryRecord ==
    ( /\ stPc \in {"done", "raised"}
      /\ stCall.aliased
      /\ \A n \in DOMAIN stData : "@name" \in DOMAIN stData[n] )
    => /\ stPc = "done"
       /\ db[stCall.table].rows = C3_RowsOfAll(stData, stCall.names)

\* C8: once the table has been re-created, it exists with exactly the
\* columns given to the most recent _recreate and holds exactly the rows
\* inserted since, in order; and after two _recreate calls in a row with the
\* same columns the table is what the first of them left, and empty.
C8_TableIsReplaced ==
    /\ recreated =>
          /\ db[TbName].exists
          /\ db[TbName].cols = Columns(lastFields)
          /\ db[TbName].rows = sinceRecreate
    /\ runLength >= 2 =>
          /\ db[TbName] = firstOfRun
          /\ db[TbName].rows = <<>>

\* Rows were inserted after a re-creation that discarded older rows, in a
\* run that also re-created the table twice in a row.
C8_Witness ==
    /\ recreated
    /\ discarded
    /\ ranTwice
    /\ Len(db[TbName].rows) >= 2


\* C4: the walk over the parents of a key always leaves its loop.
C4_WalkTerminates == (tPc = "while") ~> (tPc # "while")

\* The keys that get a path: mapped, not numeric, not 'EU'.
C5_Eligible == {key \in DOMAIN mapping : ~IsNumeric(key) /\ key # EU}

\* The chain of ancestors from parent p by repeated lookup, ending at an
\* ancestor without a (non-empty) parent entry, and at the sentinel, which
\* is its last element.
RECURSIVE C5_ChainWithSentinel(_, _)
C5_ChainWithSentinel(m, p) ==
    IF p = <<>> THEN <<>>
    ELSE IF p = Root \/ p \notin DOMAIN m THEN <<p>>
    ELSE <<p>> \o C5_ChainWithSentinel(m, m[p])

\* The same chain ending before a sentinel that a lookup yields: only the
\* immediate parent of the key may be the sentinel.
RECURSIVE C5_ChainBeforeSentinel(_, _)
C5_ChainBeforeSentinel(m, p) ==
    IF p = <<>> THEN <<>>
    ELSE IF p \notin DOMAIN m \/ m[p] = Root THEN <<p>>
    ELSE <<p>> \o C5_ChainBeforeSentinel(m, m[p])

\* C5 as stated: every stored path is the chain of ancestors of its key, with
\* the sentinel '001' as last element when the chain reaches it.
C5_PathsEndWithSentinel ==
    \A i \in DOMAIN pathValues :
        LET key == pathValues[i][1].v
        IN /\ key \in C5_Eligible
           /\ pathValues[i][2] = PyStr(JoinSp(C5_ChainWithSentinel(mapping, mapping[key])))

\* C5 as amended: every stored path belongs to a mapped key that is neither
\* numeric nor 'EU' and is the chain of ancestors of that key from its
\* immediate parent, ending before an ancestor '001' found by lookup or at
\* an ancestor without parent entry; when the routine has run through, the
\* table holds exactly one such row per eligible key.
C5_PathsStopBeforeSentinel ==
    /\ \A i \in DOMAIN pathValues :
          LET key == pathValues[i][1].v
          IN /\ key \in C5_Eligible
             /\ pathValues[i][2] =
                   PyStr(JoinSp(C5_ChainBeforeSentinel(mapping, mapping[key])))
    /\ tPc \in {"done", "raised"} =>
          /\ db["containment_path"].rows = pathValues
          /\ {pathValues[i][1].v : i \in DOMAIN pathValues} = C5_Eligible
          /\ Len(pathValues) = Cardinality(C5_Eligible)

\* The routine has run through over the parent map A:B, B:C, C:001, with the
\* path 'B C' stored for A and the path '001' for C.
C5_Witness ==
    /\ tPc = "done"
    /\ mapping = (<<"A">> :> <<"B">>) @@ (<<"B">> :> <<"C">>) @@ (<<"C">> :> Root)
    /\ \E i \in DOMAIN pathValues :
          pathValues[i] = <<PyStr(<<"A">>), PyStr(<<"B", " ", "C">>)>>
    /\ \E i \in DOMAIN pathValues :
          pathValues[i] = <<PyStr(<<"C">>), PyStr(Root)>>
    /\ db["containment_path"].rows = pathValues

\* The intermediary flag as stated: the group is marked with the grouping
\* status, or every member is numeric.
C9_Intermediary(group, members) ==
    \/ Get(group, "@status", None) = Grouping
    \/ \A i \in DOMAIN members : IsNumeric(members[i])

RECURSIVE C9_Rows(_)
C9_Rows(groups) ==
    IF groups = <<>> THEN <<>>
    ELSE LET group == Head(groups)
             members == SplitWs(group["@contains"].v)
         IN IF Get(group, "@status", None) = Deprecated THEN C9_Rows(Tail(groups))
            ELSE [i \in DOMAIN members |->
                     <<group["@type"], PyStr(members[i]),
                       PyBool(C9_Intermediary(group, members))>>]
                 \o C9_Rows(Tail(groups))

\* C9: the containment rows are those of the groups that are not deprecated,
\* one per member, each with intermediary true exactly when the group is
\* marked with the grouping status or has only numeric members; a deprecated
\* group adds no row and no entry to the parent map.
C9_IntermediaryFlag ==
    tPc \notin {"idle", "start"} =>
        /\ db["containment"].rows = C9_Rows(tGroups)
        /\ \A key \in DOMAIN mapping :
              \E i \in DOMAIN C9_Rows(tGroups) :
                 C9_Rows(tGroups)[i][2] = PyStr(key) /\ C9_Rows(tGroups)[i][1] = PyStr(mapping[key])


\* C10: to_bool yields true for each of True, 1, 'yes', 'true', false for
\* each of False, 0, 'no', 'false', and the truth value of any other value;
\* and every row of the region table stored for a currency without tender
\* attribute has tender true, every row for one with tender 'false' has
\* tender false.
C10_BooleanCast ==
    /\ castOut # None =>
          /\ castIn \in {PyBool(TRUE), PyInt(1), PyStr(<<"y", "e", "s">>),
                         PyStr(<<"t", "r", "u", "e">>)} => castOut = PyBool(TRUE)
          /\ castIn \in {PyBool(FALSE), PyInt(0), PyStr(<<"n", "o">>),
                         PyStr(<<"f", "a", "l", "s", "e">>)} => castOut = PyBool(FALSE)
          /\ castIn \in {None, PyInt(2), PyStr(<<>>), PyStr(<<"0">>),
                         PyStr(<<"F", "a", "l", "s", "e">>)} =>
                castOut = PyBool(castIn \notin {None, PyStr(<<>>)})
    /\ cPc = "done" =>
          LET pairs == RegionPairs(cRegions)
              rows == db["region"].rows
          IN /\ Len(rows) = Len(pairs)
             /\ \A i \in DOMAIN pairs :
                   /\ rows[i][1] = pairs[i][1]["@iso3166"]
                   /\ "@tender" \notin DOMAIN pairs[i][2] => rows[i][5] = PyBool(TRUE)
                   /\ ( /\ "@tender" \in DOMAIN pairs[i][2]
                        /\ pairs[i][2]["@tender"] = PyStr(<<"f", "a", "l", "s", "e">>) )
                      => rows[i][5] = PyBool(FALSE)

\* The extraction has stored a region whose currency list holds one entry
\* with tender 'false' and an end date and one without tender, and to_bool
\* has been applied to 'false'.
C10_Witness ==
    /\ cPc = "done"
    /\ castIn = PyStr(<<"f", "a", "l", "s", "e">>)
    /\ castOut = PyBool(FALSE)
    /\ db["region"].rows =
          << <<FR, PyStr(<<"X">>), None, PyDate(1998, 12, 31), PyBool(FALSE)>>,
             <<FR, PyStr(<<"X">>), PyDate(1999, 1, 1), None, PyBool(TRUE)>> >>

\* C6: a failure in one routine (a missing archive member, a projection
\* error, a storage error) does not keep the remaining routines of the
\* dataset or the following datasets from running: when the run is over,
\* every routine has been invoked.
C6_EveryRoutineInvoked ==
    rPc \in {"done", "raised"} => rInvoked = Routines

\* C7: every resource that was acquired (the archive handle, each database
\* connection, each member stream) has been released exactly once when the
\* run is over, whether it ended normally or by an exception.
C7_ResourcesReleased ==
    /\ ~rTwice
    /\ rPc \in {"done", "raised"} => (rOpen = {} /\ rReleased = rAcquired)

=============================================================================
